---- MODULE Spec2Model ----
(***************************************************************************)
(* Model of the conversational router of server-python: the /chat          *)
(* endpoint (main.py), the two appliance agents and the LLM fallback agent *)
(* (agents/appliance_agent.py), the classifier and the routing step        *)
(* (agents/orchestrator.py) and the help agents (agents/help_agents.py).   *)
(*                                                                         *)
(* Texts are sequences of one-character strings, so that strip, lower,     *)
(* split, startswith, replace and the "in" substring test are computed as  *)
(* Python computes them.  Fixed pieces of an f-string are kept as one      *)
(* element of the sequence; the interpolated values are spliced in.        *)
(*                                                                         *)
(* One chat_endpoint call is one action.  The agents are the module-level  *)
(* objects of main.py, shared by every session; conversation_state is the  *)
(* module-level dict.  Every LLM call and every help agent call may end in *)
(* any of the outcomes listed for it, an exception included.               *)
(***************************************************************************)
EXTENDS Integers, Sequences, FiniteSets, TLC

(***************************************************************************)
(* Python string operations                                                *)
(***************************************************************************)
UpperChars == <<"A","B","C","D","E","F","G","H","I","J","K","L","M",
                "N","O","P","Q","R","S","T","U","V","W","X","Y","Z">>

LowerChars == <<"a","b","c","d","e","f","g","h","i","j","k","l","m",
                "n","o","p","q","r","s","t","u","v","w","x","y","z">>

DigitChars == {"0","1","2","3","4","5","6","7","8","9"}

Range(s) == {s[i] : i \in DOMAIN s}

UpperSet == Range(UpperChars)

AlnumSet == Range(UpperChars) \cup Range(LowerChars) \cup DigitChars

LowerOf == [c \in UpperSet |-> LowerChars[CHOOSE i \in DOMAIN UpperChars : UpperChars[i] = c]]

\* str.isalnum() of one character
IsAlnum(c) == c \in AlnumSet

\* the characters str.strip() removes
IsSpace(c) == c = " " \/ c = "\n" \/ c = "\t"

LowerChar(c) == IF c \in UpperSet THEN LowerOf[c] ELSE c

\* str.lower()
Lower(s) == [i \in DOMAIN s |-> LowerChar(s[i])]

\* s[n:] and s[:n]
Drop(s, n) == SubSeq(s, n + 1, Len(s))
Take(s, n) == SubSeq(s, 1, n)

\* p occurs in s right after the first n characters
MatchAt(s, n, p) == n + Len(p) <= Len(s) /\ \A j \in DOMAIN p : s[n + j] = p[j]

\* str.startswith(p)
StartsWith(s, p) == MatchAt(s, 0, p)

\* p in s
Contains(s, p) == \E n \in 0..(Len(s) - Len(p)) : MatchAt(s, n, p)

\* str.strip()
Strip(s) ==
    LET kept == {i \in DOMAIN s : ~IsSpace(s[i])}
        first == CHOOSE i \in kept : \A j \in kept : i <= j
        final == CHOOSE i \in kept : \A j \in kept : j <= i
    IN  IF kept = {} THEN <<>> ELSE SubSeq(s, first, final)

\* str.replace(p, "") for a non-empty p: every non-overlapping occurrence,
\* scanning from the left; RemoveFrom does s[n:]
RECURSIVE RemoveFrom(_, _, _)
RemoveFrom(s, n, p) ==
    IF n >= Len(s) THEN <<>>
    ELSE IF MatchAt(s, n, p) THEN RemoveFrom(s, n + Len(p), p)
    ELSE <<s[n + 1]>> \o RemoveFrom(s, n + 1, p)

Remove(s, p) == IF Contains(s, p) THEN RemoveFrom(s, 0, p) ELSE s

\* str.split("\n"); SplitFrom does s[n:], whose current line began after the
\* first b characters
RECURSIVE SplitFrom(_, _, _)
SplitFrom(s, b, n) ==
    IF n >= Len(s) THEN <<SubSeq(s, b + 1, Len(s))>>
    ELSE IF s[n + 1] = "\n" THEN <<SubSeq(s, b + 1, n)>> \o SplitFrom(s, n + 1, n + 1)
    ELSE SplitFrom(s, b, n + 1)

SplitLines(s) == SplitFrom(s, 0, 0)

\* [line for line in text.split("\n") if line.startswith(label)]
LinesStartingWith(text, label) ==
    SelectSeq(SplitLines(text), LAMBDA line : StartsWith(line, label))

(***************************************************************************)
(* String literals of the program                                          *)
(***************************************************************************)
\* Python's None, where a str may stand
None == <<"None">>

\* truth value of a str-or-None
Truthy(x) == x # None /\ x # <<>>

SP == <<" ">>
NL == <<"\n">>

Refrigerator == <<"r","e","f","r","i","g","e","r","a","t","o","r">>
Dishwasher == <<"d","i","s","h","w","a","s","h","e","r">>
Other == <<"o","t","h","e","r">>

Manual == <<"m","a","n","u","a","l">>
Parts == <<"p","a","r","t","s">>
Symptoms == <<"s","y","m","p","t","o","m","s">>
Installation == <<"i","n","s","t","a","l","l","a","t","i","o","n">>

L_MODEL == <<"M","O","D","E","L",":">>
L_HELP == <<"H","E","L","P",":">>
L_DETAILS == <<"D","E","T","A","I","L","S",":">>

\* ApplianceAgent.services joined with "\n"
ServicesList ==
    << "1. Want the product manual or care guide\n2. Help searching a part for their product model\n3. Looking for help with a problem/symptoms in the product\n4. Looking for installation information" >>

IntroMsg(appliance_type) ==
    <<"I can help you with your ">> \o appliance_type
    \o <<". Could you please provide your appliance's model number? It's usually found on a label inside the appliance.">>

ErrorMsg(appliance_type) ==
    <<"That doesn't appear to be a valid model number. Could you please double-check the model number on your appliance? It's usually found on a label inside the ">>
    \o appliance_type \o <<".">>

ServicesMsg(appliance_type) ==
    <<"Thank you. Here are the services I can provide for your ">> \o appliance_type
    \o <<":\n">> \o ServicesList \o <<"\n\nWhat kind of help do you need?">>

\* the request that answers with the services menu in place of the question
ModelMsgAsMenu(appliance_type) == ServicesMsg(appliance_type)

ModelMsg(appliance_type) ==
    <<"Could you please provide your ">> \o appliance_type
    \o <<"'s model number? It's usually found on a label inside the appliance.">>

FoundMsg(help_needed, model_number, details) ==
    <<"I'll help you find ">> \o help_needed \o <<" information for model ">>
    \o model_number \o <<". Specifically about: ">> \o details

ServicesMsg2 ==
    <<"What kind of help do you need? Here are the services I can provide:\n">> \o ServicesList

ClosingPrompt == <<"\n\nIs there anything else I can help you with?">>

ApologyMsg ==
    <<"Sorry, I encountered an error while processing your request. Please try again.">>

(***************************************************************************)
(* agents/base_agent.py                                                    *)
(***************************************************************************)
\* One entry of BaseAgent.conversation_history.  The entry keeps its role and
\* the session whose turn appended it (the code keeps no such tag: it is the
\* observer's record of whose turn it was).  The content of an entry is
\* never read back by the program except to replay it to the LLM, so it is
\* kept only for the entries of the latest call, in the call's "appended".
Entry(role, sid) == [role |-> role, sid |-> sid]

\* BaseAgent.add_to_history
add_to_history(history, role, sid) == Append(history, Entry(role, sid))

\* what one add_to_history call appended, content included
Said(role, content) == [role |-> role, content |-> content]

\* what an LLM call (self.llm.agenerate) gives back: a text, or an exception
LlmText(text) == [ok |-> TRUE, text |-> text]
LlmError == [ok |-> FALSE, text |-> <<>>]

(***************************************************************************)
(* agents/appliance_agent.py: ApplianceAgent                               *)
(***************************************************************************)
MinModelLen == 4

DenyList ==
    { <<"n","/","a">>, <<"u","n","k","n","o","w","n">>, <<"n","o","n","e">>, <<>> }

\* InvalidModelNumber with the deny list compared without lower-casing
InvalidModelNumberCaseSensitive(model_number) ==
    \/ model_number \in DenyList
    \/ Len(model_number) < MinModelLen
    \/ ~ \E i \in DOMAIN model_number : IsAlnum(model_number[i])

\* InvalidModelNumber with the length test alone
InvalidModelNumberLengthOnly(model_number) ==
    Len(model_number) < MinModelLen

\* InvalidModelNumber with the deny list alone
InvalidModelNumberDenyListOnly(model_number) ==
    Lower(model_number) \in DenyList

\* the validation test of the model number (True: the value is rejected)
InvalidModelNumber(model_number) ==
    \/ Lower(model_number) \in DenyList
    \/ Len(model_number) < MinModelLen
    \/ ~ \E i \in DOMAIN model_number : IsAlnum(model_number[i])

\* KeywordMatch giving the keyword it found in place of the help type
KeywordMatchKeyword(query) ==
    LET query_lower == Lower(query)
        words == << <<"m","a","n","u","a","l">>, <<"g","u","i","d","e">>, <<"p","a","r","t">>,
                    <<"p","r","o","b","l","e","m">>, <<"s","y","m","p","t","o","m">>,
                    <<"i","s","s","u","e">>, <<"e","r","r","o","r">>,
                    <<"i","n","s","t","a","l","l">>, <<"s","e","t","u","p">> >>
        found == {i \in DOMAIN words : Contains(query_lower, words[i])}
    IN  IF found = {}
        THEN [help_type |-> None, details |-> None]
        ELSE [help_type |-> words[CHOOSE i \in found : \A j \in found : i <= j],
              details |-> <<"General product manual and care guide">>]

\* KeywordMatch that tests "part" before "manual" and "guide"
KeywordMatchPartFirst(query) ==
    LET query_lower == Lower(query)
        has(w) == Contains(query_lower, w)
    IN  IF has(<<"p","a","r","t">>)
        THEN [help_type |-> Parts,
              details |-> <<"Part information and replacement">>]
        ELSE IF has(<<"m","a","n","u","a","l">>) \/ has(<<"g","u","i","d","e">>)
        THEN [help_type |-> Manual,
              details |-> <<"General product manual and care guide">>]
        ELSE IF \E w \in { <<"p","r","o","b","l","e","m">>, <<"s","y","m","p","t","o","m">>,
                           <<"i","s","s","u","e">>, <<"e","r","r","o","r">> } : has(w)
        THEN [help_type |-> Symptoms,
              details |-> <<"Troubleshooting and problem resolution">>]
        ELSE IF has(<<"i","n","s","t","a","l","l">>) \/ has(<<"s","e","t","u","p">>)
        THEN [help_type |-> Installation,
              details |-> <<"Installation and setup instructions">>]
        ELSE [help_type |-> None, details |-> None]

\* the if/elif chain over query_lower: (help_type, details), None when no
\* keyword occurs
KeywordMatch(query) ==
    LET query_lower == Lower(query)
        has(w) == Contains(query_lower, w)
    IN  IF has(<<"m","a","n","u","a","l">>) \/ has(<<"g","u","i","d","e">>)
        THEN [help_type |-> Manual,
              details |-> <<"General product manual and care guide">>]
        ELSE IF has(<<"p","a","r","t">>)
        THEN [help_type |-> Parts,
              details |-> <<"Part information and replacement">>]
        ELSE IF \E w \in { <<"p","r","o","b","l","e","m">>, <<"s","y","m","p","t","o","m">>,
                           <<"i","s","s","u","e">>, <<"e","r","r","o","r">> } : has(w)
        THEN [help_type |-> Symptoms,
              details |-> <<"Troubleshooting and problem resolution">>]
        ELSE IF has(<<"i","n","s","t","a","l","l">>) \/ has(<<"s","e","t","u","p">>)
        THEN [help_type |-> Installation,
              details |-> <<"Installation and setup instructions">>]
        ELSE [help_type |-> None, details |-> None]

\* The outcome of one ApplianceAgent.process call: the agent's fields after
\* the call, the dict it returned (keys: the dict's keys) or the fact that it
\* raised, and what the call did (appended, llm_called, replayed, branch).
AgentOutcome(history, model_number, raised, keys, response, complete, r_model, r_help, r_details, appended, llm_called, branch) ==
    [ history |-> history, model_number |-> model_number,
      raised |-> raised, keys |-> keys, response |-> response,
      complete |-> complete, r_model |-> r_model, r_help |-> r_help,
      r_details |-> r_details, appended |-> appended,
      llm_called |-> llm_called, branch |-> branch ]

\* AgentAsks that returns the message without adding it to the history
AgentAsksUnrecorded(h1, model_number, query, msg, sid, llm_called, branch) ==
    AgentOutcome(h1, model_number, FALSE,
                 {"response", "complete"}, msg, FALSE, None, None, None,
                 <<Said("user", query)>>, llm_called, branch)

\* return {"response": msg, "complete": False} after add_to_history("assistant", msg)
AgentAsks(h1, model_number, query, msg, sid, llm_called, branch) ==
    AgentOutcome(add_to_history(h1, "assistant", sid), model_number, FALSE,
                 {"response", "complete"}, msg, FALSE, None, None, None,
                 <<Said("user", query), Said("assistant", msg)>>, llm_called, branch)

\* return {..., "complete": True, "model_number": ..., "help_needed": ..., ...}
AgentCompletes(h1, model_number, query, help_needed, details, sid, branch) ==
    AgentOutcome(add_to_history(h1, "assistant", sid), model_number, FALSE,
                 {"response", "complete", "model_number", "help_needed",
                  "details", "appliance_type"},
                 FoundMsg(help_needed, model_number, details), TRUE,
                 model_number, help_needed, details,
                 <<Said("user", query),
                   Said("assistant", FoundMsg(help_needed, model_number, details))>>,
                 TRUE, branch)

\* an exception leaves process: nothing is returned, what was assigned stays
AgentRaises(h1, model_number, query, branch) ==
    AgentOutcome(h1, model_number, TRUE, {}, <<>>, FALSE, None, None, None,
                 <<Said("user", query)>>, TRUE, branch)

\* StoredModel that keeps a model number the agent already has
StoredModelKeepsFirst(self, hasModel, model_number) ==
    IF Truthy(self.model_number) \/ ~hasModel THEN self.model_number ELSE model_number

\* self.model_number once the validation has passed: the value of the MODEL
\* line ("self.model_number = model_number") when the text has the label,
\* and what the agent had otherwise
StoredModel(self, hasModel, model_number) ==
    IF hasModel THEN model_number ELSE self.model_number

\* ApplianceAgent.process; self is the agent's fields, llm the outcome of the
\* agenerate call should the call be made
ApplianceAgent_process(self, query, sid, llm) ==
    LET at == self.appliance_type
        h1 == add_to_history(self.conversation_history, "user", sid)
        result == Strip(llm.text)
        hasModel == Contains(result, L_MODEL)
        hasHelp == Contains(result, L_HELP)
        hasDetails == Contains(result, L_DETAILS)
        model_lines == LinesStartingWith(result, L_MODEL)
        help_lines == LinesStartingWith(result, L_HELP)
        details_lines == LinesStartingWith(result, L_DETAILS)
        model_number == Strip(Remove(model_lines[1], L_MODEL))
        help_needed == Strip(Remove(help_lines[1], L_HELP))
        details == Strip(Remove(details_lines[1], L_DETAILS))
        stored == StoredModel(self, hasModel, model_number)
        kw == KeywordMatch(query)
    IN  IF Len(h1) = 1
        THEN AgentAsks(h1, self.model_number, query, IntroMsg(at), sid, FALSE, "intro")
        ELSE IF ~llm.ok
        THEN AgentRaises(h1, self.model_number, query, "llm_error")
        ELSE IF hasModel /\ model_lines = <<>>
        THEN AgentRaises(h1, self.model_number, query, "index_error")
        ELSE IF hasModel /\ InvalidModelNumber(model_number)
        THEN AgentAsks(h1, self.model_number, query, ErrorMsg(at), sid, TRUE, "invalid")
        ELSE IF hasModel /\ ~hasHelp
        THEN AgentAsks(h1, stored, query, ServicesMsg(at), sid, TRUE, "services")
        ELSE IF hasModel /\ hasHelp /\ hasDetails
        THEN IF help_lines = <<>> \/ details_lines = <<>>
             THEN AgentRaises(h1, stored, query, "index_error")
             ELSE AgentCompletes(h1, stored, query, help_needed, details, sid, "extracted")
        ELSE IF ~hasModel
        THEN AgentAsks(h1, stored, query, ModelMsg(at), sid, TRUE, "ask_model")
        ELSE IF Truthy(stored) /\ kw.help_type # None
        THEN AgentCompletes(h1, stored, query, kw.help_type, kw.details, sid, "keyword")
        ELSE AgentAsks(h1, stored, query, ServicesMsg2, sid, TRUE, "services_again")

(***************************************************************************)
(* agents/appliance_agent.py: FallbackAgent (the one main.py imports)      *)
(***************************************************************************)
\* FallbackAgent.process that answers with a fixed question in place of the
\* LLM's text
FallbackAgent_processFixed(history, query, sid, llm) ==
    IF ~llm.ok
    THEN [history |-> history, raised |-> TRUE, keys |-> {}, response |-> <<>>]
    ELSE [history |-> add_to_history(history, "assistant", sid), raised |-> FALSE,
          keys |-> {"response", "complete"},
          response |-> <<"I specialize in helping with refrigerators and dishwashers. Which appliance do you need help with?">>]

\* FallbackAgent.process: the reply is the LLM's text; only the assistant
\* entry is added to the agent's history
FallbackAgent_process(history, query, sid, llm) ==
    IF ~llm.ok
    THEN [history |-> history, raised |-> TRUE, keys |-> {}, response |-> <<>>]
    ELSE [history |-> add_to_history(history, "assistant", sid), raised |-> FALSE,
          keys |-> {"response", "complete"}, response |-> Strip(llm.text)]

(***************************************************************************)
(* The session stores: main.py's conversation_state and the                *)
(* conversation_states of agents/fallback_agent.py                         *)
(***************************************************************************)
\* GetOrCreate that puts a fresh entry under the key whether or not it has one
GetOrCreateAnew(store, key, fresh) ==
    [k \in DOMAIN store \cup {key} |-> IF k = key THEN fresh ELSE store[k]]

\* "if key not in store: store[key] = fresh", the store afterwards
GetOrCreate(store, key, fresh) ==
    IF key \in DOMAIN store
    THEN store
    ELSE [k \in DOMAIN store \cup {key} |-> IF k = key THEN fresh ELSE store[k]]

\* ConversationState.__init__
ConversationState ==
    [appliance_type |-> None, model_number |-> None, last_valid_menu |-> None, conversation_history |-> <<>>]

\* FallbackAgent._get_or_create_state: the dict afterwards; the state it
\* returns is the entry of session_id
get_or_create_state(states, session_id) == GetOrCreate(states, session_id, ConversationState)

(***************************************************************************)
(* agents/fallback_agent.py: FallbackAgent.process                         *)
(***************************************************************************)
\* dict.get(key, default)
Get(dict, key, default) == IF key \in DOMAIN dict THEN dict[key] ELSE default

\* self.services_menu.format(appliance=appliance)
services_menu(appliance) ==
    <<"Thank you. Here are the services I can provide for your ">> \o appliance
    \o <<":\n">> \o ServicesList \o <<"\nWhat kind of help do you need?">>

AskModelNumber ==
    <<"Could you please provide your appliance's model number? It's usually found on a label inside the appliance.">>

AskAppliance ==
    <<"I specialize in helping with refrigerators and dishwashers. Which appliance do you need help with?">>

\* the session's state after "Update state from input data" and the append
\* of the query to its conversation_history
StateFromInput(state, input_data) ==
    [state EXCEPT !.appliance_type = Get(input_data, "appliance_type", state.appliance_type),
                  !.model_number = Get(input_data, "model_number", state.model_number),
                  !.conversation_history = Append(state.conversation_history, Said("user", Get(input_data, "query", <<>>)))]

\* what process returns: the response and the "state" dict
ProcessResult(response, state) == [response |-> response, state |-> state]

\* the return with the services menu of the state's appliance type
ProcessReturns_menu(state) ==
    ProcessResult(services_menu(state.appliance_type),
                  [k \in {"appliance_type", "model_number", "last_valid_menu"} |->
                      CASE k = "appliance_type" -> state.appliance_type
                        [] k = "model_number" -> state.model_number
                        [] OTHER -> services_menu(state.appliance_type)])

\* the returns of process that give the menu whenever an appliance type is set
ProcessReturnsMenuFirst(state) ==
    IF Truthy(state.appliance_type)
    THEN ProcessReturns_menu(state)
    ELSE ProcessResult(AskAppliance, <<>>)

\* the three returns of process, chosen on the state's two fields
ProcessReturns(state) ==
    IF Truthy(state.appliance_type) /\ Truthy(state.model_number)
    THEN ProcessReturns_menu(state)
    ELSE IF Truthy(state.appliance_type) /\ ~Truthy(state.model_number)
    THEN ProcessResult(AskModelNumber, [k \in {"appliance_type"} |-> state.appliance_type])
    ELSE ProcessResult(AskAppliance, <<>>)

(***************************************************************************)
(* agents/orchestrator.py                                                  *)
(***************************************************************************)
\* The conversation_history of Orchestrator1 and of Orchestrator2: set to []
\* by BaseAgent.__init__ and never added to, it is what their
\* create_chat_messages replays before the prompt.
OrchestratorHistory == <<>>

\* Orchestrator1.process that takes a text for a label when the label occurs in it
Orchestrator1_processContains(query, llm) ==
    LET category == Lower(Strip(llm.text))
    IN  IF ~llm.ok
        THEN [raised |-> TRUE, category |-> None]
        ELSE [raised |-> FALSE,
              category |-> IF Contains(category, Refrigerator) THEN Refrigerator
                           ELSE IF Contains(category, Dishwasher) THEN Dishwasher
                           ELSE Other]

\* Orchestrator1.process: the category, or an exception of the LLM call
Orchestrator1_process(query, llm) ==
    LET category == Lower(Strip(llm.text))
    IN  IF ~llm.ok
        THEN [raised |-> TRUE, category |-> None]
        ELSE [raised |-> FALSE,
              category |-> IF category \notin {Refrigerator, Dishwasher, Other}
                           THEN Other ELSE category]

\* Orchestrator2.create_model_url
create_model_url(model_number) ==
    <<"https://www.partselect.com/Models/">> \o Remove(Strip(model_number), SP)

valid_help_types == {Manual, Parts, Symptoms, Installation}

PartWords ==
    { <<"p","a","r","t">>, <<"f","i","l","t","e","r">>, <<"s","h","e","l","f">>,
      <<"d","r","a","w","e","r">>, <<"b","i","n">>,
      <<"r","e","p","l","a","c","e","m","e","n","t">> }

\* CleanHelpType without the validation: the cleaned label as the LLM gave it
CleanHelpTypeUnchecked(text, help_needed) ==
    Strip(Remove(Lower(Strip(text)), <<"r","e","s","p","o","n","s","e",":">>))

\* CleanHelpType that looks for the part words in help_needed as written
CleanHelpTypeAsWritten(text, help_needed) ==
    LET help_type == Strip(Remove(Lower(Strip(text)), <<"r","e","s","p","o","n","s","e",":">>))
    IN  IF help_type \in valid_help_types THEN help_type
        ELSE IF \E w \in PartWords : Contains(help_needed, w) THEN Parts
        ELSE Manual

\* the cleaning and validation of the LLM's label, with its defaults
CleanHelpType(text, help_needed) ==
    LET help_type == Strip(Remove(Lower(Strip(text)), <<"r","e","s","p","o","n","s","e",":">>))
    IN  IF help_type \in valid_help_types THEN help_type
        ELSE IF \E w \in PartWords : Contains(Lower(help_needed), w) THEN Parts
        ELSE Manual

\* Orchestrator2.process: the dict it returns (keys: the dict's keys), or an
\* exception of the LLM call
Orchestrator2_process(model_number, help_needed, details, appliance_type, llm) ==
    IF ~Truthy(model_number) \/ ~Truthy(help_needed)
    THEN [raised |-> FALSE, llm_called |-> FALSE,
          keys |-> {"category", "appliance_type", "model_number", "last_valid_menu", "session_id"},
          help_type |-> None, base_url |-> None, help_needed |-> None, details |-> None]
    ELSE IF ~llm.ok
    THEN [raised |-> TRUE, llm_called |-> TRUE, keys |-> {},
          help_type |-> None, base_url |-> None, help_needed |-> None, details |-> None]
    ELSE [raised |-> FALSE, llm_called |-> TRUE,
          keys |-> {"help_type", "base_url", "help_needed", "details", "model_number", "appliance_type"},
          help_type |-> CleanHelpType(llm.text, help_needed),
          base_url |-> create_model_url(model_number),
          help_needed |-> help_needed, details |-> details]

(***************************************************************************)
(* agents/help_agents.py                                                   *)
(***************************************************************************)
\* How a call help_agent.process(input_data) can end.  ManualAgent, PartsAgent
\* and SymptomsAgent wrap their whole process_content in try/except and
\* return {"response", "success"} either way.  InstallationAgent declares
\* process_content(self, content, help_needed), and BaseHelpAgent.process
\* calls process_content(input_data): the call raises TypeError every time.
HelpOutcomes(help_type) ==
    IF help_type = Installation THEN {"raise"} ELSE {"success", "failure"}

\* help_result["response"]; the retrieval that produces it is not modelled
HelpResponse(help_type, outcome) ==
    IF outcome = "success"
    THEN <<"<help found for ">> \o help_type \o <<">">>
    ELSE <<"<apology of the help agent for ">> \o help_type \o <<">">>

(***************************************************************************)
(* The requests and the LLM outputs the model draws from                   *)
(***************************************************************************)
\* total number of /chat requests of a behaviour
MaxTurns == 3

\* request.sessionId: "" stands for an absent (or empty) id
RequestIds == {"", "s1"}

Q_leaking == <<"i","t"," ","i","s"," ","l","e","a","k","i","n","g">>
Q_guide == <<"t","h","e"," ","G","u","i","d","e"," ","p","l","e","a","s","e">>

\* request.userQuery
Queries == {Q_leaking, Q_guide}

\* user texts with keywords of one group, of several groups, in either
\* case, inside longer words, and with none
KeywordQueries ==
    { <<"m","a","n","u","a","l"," ","f","o","r"," ","t","h","i","s"," ","P","A","R","T">>,
      <<"S","e","t","u","p"," ","g","u","i","d","e">>,
      <<"e","r","r","o","r"," ","i","n","s","t","a","l","l","i","n","g"," ","a"," ","p","a","r","t">>,
      <<"m","y"," ","P","r","o","b","l","e","m"," ","w","i","t","h"," ","s","e","t","u","p">>,
      <<"s","y","m","p","t","o","m">>,
      <<"a","n"," ","i","s","s","u","e">>,
      <<"r","e","i","n","s","t","a","l","l"," ","i","t">>,
      <<"p","a","r","t","i","c","u","l","a","r"," ","n","o","i","s","e">>,
      <<"g","u","i","d","e","l","i","n","e","s">>,
      <<"h","e","l","l","o"," ","t","h","e","r","e">>,
      <<"I","N","S","T","A","L","L">>,
      <<"t","h","e"," ","p","a","r","t"," ","a","n","d"," ","t","h","e"," ","m","a","n","u","a","l">>,
      <<"e","r","r","o","r","s"," ","i","n"," ","t","h","e"," ","M","a","n","u","a","l">> }

X_question == <<"W","h","a","t"," ","m","o","d","e","l"," ","d","o"," ","y","o","u"," ","h","a","v","e","?">>
X_model == <<"M","O","D","E","L",":"," ","W","R","T","1","1","1">>
X_na == <<"M","O","D","E","L",":"," ","N","/","A">>
X_midline == <<"W","h","i","c","h"," ","M","O","D","E","L",":"," ","d","o"," ","y","o","u"," ","h","a","v","e","?">>
X_full_parts == <<"M","O","D","E","L",":"," ","W","R","T","1","1","1","\n","H","E","L","P",":"," ","p","a","r","t","s","\n","D","E","T","A","I","L","S",":"," ","w","a","t","e","r"," ","f","i","l","t","e","r">>
X_full_diagram == <<"M","O","D","E","L",":"," ","W","R","T","1","1","1","\n","H","E","L","P",":"," ","d","i","a","g","r","a","m","\n","D","E","T","A","I","L","S",":"," ","d","o","o","r">>
X_full_nohelp == <<"M","O","D","E","L",":"," ","W","R","T","1","1","1","\n","H","E","L","P",":","\n","D","E","T","A","I","L","S",":"," ","d","o","o","r">>
X_full_none == <<"M","O","D","E","L",":"," ","n","o","n","e","\n","H","E","L","P",":"," ","p","a","r","t","s","\n","D","E","T","A","I","L","S",":"," ","w","a","t","e","r"," ","f","i","l","t","e","r">>
X_model_help == <<"M","O","D","E","L",":"," ","W","R","T","1","1","1","\n","H","E","L","P",":"," ","m","a","n","u","a","l">>
X_help_only == <<"H","E","L","P",":"," ","p","a","r","t","s","\n","D","E","T","A","I","L","S",":"," ","w","a","t","e","r"," ","f","i","l","t","e","r">>
X_midline_help == <<"M","O","D","E","L",":"," ","W","R","T","1","1","1","\n","I"," ","c","a","n"," ","H","E","L","P",":"," ","y","o","u","."," ","D","E","T","A","I","L","S",":"," ","s","o","o","n">>

X_full_other == <<"M","O","D","E","L",":"," ","A","B","-","1","\n","H","E","L","P",":"," ","m","a","n","u","a","l","\n","D","E","T","A","I","L","S",":"," ","c","a","r","e"," ","g","u","i","d","e">>

\* extraction texts with one model number, with another, and with none
CompletionTexts ==
    { X_question, X_model, X_help_only, X_model_help, X_full_parts, X_full_other }

\* texts the LLM may give to the extraction prompt
ExtractionTexts ==
    { X_question, X_model, X_na, X_midline, X_full_parts, X_full_diagram,
      X_full_nohelp, X_full_none, X_model_help, X_help_only, X_midline_help }

\* model numbers the LLM may put on a MODEL line
ModelNumbers ==
    { <<>>, <<"N","/","A">>, <<"n","/","a">>, <<"U","n","k","n","o","w","n">>, <<"u","n","k","n","o","w","n">>, <<"N","O","N","E">>, <<"n","o","n","e">>, <<"N","o","n","e","!">>,
      <<"W","R","T">>, <<"A","B","1">>, <<"-","-","-","-">>, <<"-","/","-","/">>, <<"-">>, <<"A","B","-","1">>, <<"W","R","T","1">>, <<"a","-","-","-">>, <<"-","-","-","1">>,
      <<"W","R","T","1","1","1">>, <<"u","n","k","n","o","w","n"," ","m","o","d","e","l">>, <<"n","/","a","1">>, <<"N","/","A"," ","N","/","A">>, <<"1","2","3","4">>, <<"A","B","C">>, <<"?">> }

\* MODEL lines as the LLM may write them, alone or with the other two lines
ModelTexts ==
    UNION { { L_MODEL \o SP \o m,
              SP \o L_MODEL \o m \o SP \o NL,
              L_MODEL \o SP \o m \o NL \o <<"H","E","L","P",":"," ","m","a","n","u","a","l","\n","D","E","T","A","I","L","S",":"," ","c","a","r","e"," ","g","u","i","d","e">> }
            : m \in ModelNumbers }

C_refrigerator == <<" ","R","e","f","r","i","g","e","r","a","t","o","r","\n">>

\* texts the LLM may give to the category prompt
CategoryTexts ==
    { C_refrigerator, <<"d","i","s","h","w","a","s","h","e","r">>, <<"o","t","h","e","r">>, <<"f","r","i","d","g","e">> }

\* category texts of any shape: other case, padding, near misses, nothing
ClassifierTexts ==
    CategoryTexts \cup
    { <<"R","E","F","R","I","G","E","R","A","T","O","R">>,
      <<"D","i","s","h","W","a","s","h","e","r"," "," ">>,
      <<"r","e","f","r","i","g","e","r","a","t","o","r","s">>,
      <<"a"," ","d","i","s","h","w","a","s","h","e","r">>,
      <<>>,
      <<"O","t","h","e","r">>,
      <<"r","e","f","r","i","g","e","r","a","t","o","r",".">>,
      <<"d","i","s","h","w","a","s","h","e","r","\n","r","e","f","r","i","g","e","r","a","t","o","r">>,
      <<"n","e","i","t","h","e","r">>,
      <<"r","e","f","r","i"," ","g","e","r","a","t","o","r">>,
      <<"\t","o","t","h","e","r","\n">> }

\* texts the LLM may give to the help type prompt
HelpTypeTexts ==
    { <<"p","a","r","t","s">>, <<"R","e","s","p","o","n","s","e",":"," ","M","a","n","u","a","l">>, <<"i","n","s","t","a","l","l","a","t","i","o","n">>, <<"d","i","a","g","r","a","m">> }

F_only == <<"W","e"," ","o","n","l","y"," ","h","a","n","d","l","e"," ","r","e","f","r","i","g","e","r","a","t","o","r","s"," ","a","n","d"," ","d","i","s","h","w","a","s","h","e","r","s",".","\n">>
F_which == <<"I","s"," ","i","t"," ","a"," ","r","e","f","r","i","g","e","r","a","t","o","r"," ","o","r"," ","a"," ","d","i","s","h","w","a","s","h","e","r","?">>
F_model == <<" ","W","h","a","t"," ","i","s"," ","t","h","e"," ","m","o","d","e","l"," ","n","u","m","b","e","r","?">>

\* HELP lines of any wording, in a text with all three lines
HelpLines ==
    { <<"p","a","r","t","s">>,
      <<"w","a","t","e","r"," ","F","I","L","T","E","R">>,
      <<"R","e","p","l","a","c","e","m","e","n","t">>,
      <<"c","a","b","i","n","e","t">>,
      <<"d","i","a","g","r","a","m">>,
      <<"n","o","i","s","e">>,
      <<"S","h","e","l","f">> }

HelpLineTexts ==
    { L_MODEL \o SP \o <<"W","R","T","1","1","1">> \o NL \o L_HELP \o SP \o h \o NL \o L_DETAILS \o SP \o <<"d","o","o","r">> : h \in HelpLines }

\* help type texts of any shape: the four labels, other case, padding, an
\* echoed "response:", near misses, nothing
LabelTexts ==
    HelpTypeTexts \cup
    { <<" ","S","Y","M","P","T","O","M","S","\n">>,
      <<"r","e","s","p","o","n","s","e",":"," ","r","e","p","a","i","r">>,
      <<>>,
      <<"m","a","n","u","a","l",".">>,
      <<"R","e","s","p","o","n","s","e",":","p","a","r","t","s">>,
      <<"p","a","r","t">> }

\* texts the LLM may give to the fallback prompt
FallbackTexts == {F_only, F_which, F_model}

Llm(texts) == {LlmText(t) : t \in texts} \cup {LlmError}

\* stands for the outcome of a call that is not made
NotCalled == [ok |-> FALSE, text |-> <<"not called">>]

(***************************************************************************)
(* main.py                                                                 *)
(***************************************************************************)
VARIABLES
    conversation_state,   \* the dict session id -> state dict
    refrigerator_agent,   \* ApplianceAgent("refrigerator"): its fields
    dishwasher_agent,     \* ApplianceAgent("dishwasher"): its fields
    fallback_agent,       \* FallbackAgent(): its conversation_history
    last,                 \* what the latest chat_endpoint call did and returned
    llm_outcomes,         \* what the LLM gave to the orchestrators and the fallback agent in that call
    turns,                \* number of chat_endpoint calls so far
    conversation_states,  \* agents/fallback_agent.py: the dict session id -> ConversationState
    process_result        \* agents/fallback_agent.py: the latest call of process and what it returned

\* the variables of main.py
main_vars == <<conversation_state, refrigerator_agent, dishwasher_agent, fallback_agent, last, llm_outcomes, turns>>

\* the variables of agents/fallback_agent.py
fallback_vars == <<conversation_states, process_result>>

vars == <<main_vars, fallback_vars>>

\* the dict a session starts with and is reset to
NewState ==
    [current_agent |-> None, category |-> None, model_number |-> None, help_type |-> None]

\* ApplianceAgent.__init__
NewApplianceAgent(appliance_type) ==
    [appliance_type |-> appliance_type, conversation_history |-> <<>>, model_number |-> None]

\* the result of an agent that was not called
NoAgentOutcome ==
    AgentOutcome(<<>>, None, FALSE, {}, <<>>, FALSE, None, None, None, <<>>, FALSE, "not_called")

\* The record of one chat_endpoint call: the session and the query, the
\* steps taken in order, the response returned, whether the except clause
\* produced it, the category of the appliance agent called and what that call
\* did (extraction: the LLM outcome it was given), the help type the routing
\* step returned and how the help agent's call ended.
Call(sid, query, steps, response, raised, category, ar, extraction, help_type, help_outcome) ==
    [ sid |-> sid, query |-> query, steps |-> steps, response |-> response,
      raised |-> raised, category |-> category, appliance_result |-> ar,
      extraction |-> extraction, help_type |-> help_type, help_outcome |-> help_outcome ]

\* The outcomes of the LLM calls of one chat_endpoint call other than the
\* extraction call: of Orchestrator1 (classification), of the fallback agent
\* (reply) and of Orchestrator2 (routing); NotCalled for a call not made.
LlmOutcomes(classification, reply, routing) ==
    [classification |-> classification, reply |-> reply, routing |-> routing]

\* process_result before any call of agents/fallback_agent.py's process
NoResult ==
    [called |-> FALSE, session_id |-> "", input_data |-> <<>>, response |-> <<>>, state |-> <<>>]

NoCall == Call("", <<>>, <<>>, <<>>, FALSE, None, NoAgentOutcome, NotCalled, None, "")

Init ==
    /\ conversation_state = <<>>
    /\ refrigerator_agent = NewApplianceAgent(Refrigerator)
    /\ dishwasher_agent = NewApplianceAgent(Dishwasher)
    /\ fallback_agent = [conversation_history |-> <<>>]
    /\ last = NoCall
    /\ llm_outcomes = LlmOutcomes(NotCalled, NotCalled, NotCalled)
    /\ turns = 0
    /\ conversation_states = <<>>
    /\ process_result = NoResult

\* session_id = request.sessionId or "default"
SessionId(rid) == IF rid = "" THEN "default" ELSE rid

\* the load that gives the session fresh fields without the membership test
LoadedAnew(sid) ==
    [k \in DOMAIN conversation_state \cup {sid} |-> IF k = sid THEN NewState ELSE conversation_state[k]]

\* conversation_state after "if session_id not in conversation_state: ..."
Loaded(sid) == GetOrCreate(conversation_state, sid, NewState)

\* InDialogue that never finds a conversation: every turn is classified
InDialogueNever(state) == FALSE

\* the test of "if state[current_agent] and state[category] in [...]"
InDialogue(state) ==
    Truthy(state.current_agent) /\ state.category \in {Refrigerator, Dishwasher}

\* appliance_agent = refrigerator_agent if category == "refrigerator" else dishwasher_agent
AgentFor(category) ==
    IF category = Refrigerator THEN refrigerator_agent ELSE dishwasher_agent

\* AgentAfter for an agent that forgets its model number when it rejects one
AgentAfterClearsOnInvalid(agent, ar) ==
    [agent EXCEPT !.conversation_history = ar.history,
                  !.model_number = IF ar.branch = "invalid" THEN None ELSE ar.model_number]

\* the agent's fields after a process call
AgentAfter(agent, ar) ==
    [agent EXCEPT !.conversation_history = ar.history, !.model_number = ar.model_number]

\* the assignment of the called agent's fields; the other agent is untouched
SetAgent(category, agent) ==
    IF category = Refrigerator
    THEN refrigerator_agent' = agent /\ UNCHANGED dishwasher_agent
    ELSE dishwasher_agent' = agent /\ UNCHANGED refrigerator_agent

\* the LLM outcomes open to the extraction call of agent.process: none when
\* the call answers with the intro message
ExtractionChoices(agent, texts) ==
    IF Len(agent.conversation_history) = 0 THEN {NotCalled} ELSE Llm(texts)

\* Apology without the except clause: the exception leaves chat_endpoint
ApologyFaults(sid, query, steps, category, ar, extraction, help_type, help_outcome) ==
    Call(sid, query, steps \o <<"fault">>, <<>>, TRUE, category, ar, extraction, help_type, help_outcome)

\* the except clause of chat_endpoint: the fixed apology is the response
Apology(sid, query, steps, category, ar, extraction, help_type, help_outcome) ==
    Call(sid, query, steps \o <<"except">>, ApologyMsg, TRUE, category, ar, extraction, help_type, help_outcome)

\* "if model_number in appliance_result and help_needed in appliance_result"
HasBoth(ar) == {"model_number", "help_needed"} \subseteq ar.keys

\* the LLM outcomes open to the call of Orchestrator2.process: none when the
\* call is not made or returns for missing fields
RoutingChoices(ar, labels) ==
    IF ar.complete /\ HasBoth(ar) /\ Truthy(ar.r_model) /\ Truthy(ar.r_help)
    THEN Llm(labels) ELSE {NotCalled}

\* the LLM outcomes open to the call of the fallback agent: none when the
\* category is not "other"
FallbackChoices(o1) ==
    IF ~o1.raised /\ o1.category = Other THEN Llm(FallbackTexts) ELSE {NotCalled}

\* ResetState that leaves the session's dict as it is
ResetStateKeeps(cs, sid) == cs

\* "Reset state after getting help"
ResetState(cs, sid) == [cs EXCEPT ![sid] = NewState]

\* content=help_result["response"] + "\n\nIs there anything else I can help you with?"
HelpContent(help_response) == help_response \o ClosingPrompt

\* The branch of chat_endpoint that continues a conversation with an
\* appliance agent, from the agent's process call to the response; cs is
\* conversation_state with the session in it, texts and labels what the LLM
\* may answer to the extraction prompt and to the help type prompt.
Continue(sid, query, cs, texts, labels) ==
    LET state == cs[sid]
        cat == state.category
        agent == AgentFor(cat)
    IN  \E extraction \in ExtractionChoices(agent, texts) :
        \E ar \in {ApplianceAgent_process(agent, query, sid, extraction)} :
        \E routing \in RoutingChoices(ar, labels) :
        LET s1 == <<"appliance_agent">>
        IN  /\ SetAgent(cat, AgentAfter(agent, ar))
            /\ UNCHANGED fallback_agent
            /\ llm_outcomes' = LlmOutcomes(NotCalled, NotCalled, routing)
            /\ IF ar.raised
               THEN /\ conversation_state' = cs
                    /\ last' = Apology(sid, query, s1, cat, ar, extraction, None, "")
               ELSE IF ~ar.complete
               THEN /\ conversation_state' = cs
                    /\ last' = Call(sid, query, s1 \o <<"return_agent">>, ar.response, FALSE, cat, ar, extraction, None, "")
               ELSE IF ~HasBoth(ar)
               THEN /\ conversation_state' = cs
                    /\ last' = Call(sid, query, s1 \o <<"complete", "return_agent">>, ar.response, FALSE, cat, ar, extraction, None, "")
               ELSE \E o2 \in {Orchestrator2_process(ar.r_model, ar.r_help, ar.r_details, cat, routing)} :
                    LET s2 == s1 \o <<"complete", "orchestrator2">>
                    IN  IF o2.raised \/ "help_type" \notin o2.keys
                        THEN /\ conversation_state' = cs
                             /\ last' = Apology(sid, query, s2, cat, ar, extraction, None, "")
                        ELSE IF o2.help_type \notin valid_help_types
                        THEN /\ conversation_state' = cs
                             /\ last' = Call(sid, query, s2 \o <<"return_agent">>, ar.response, FALSE, cat, ar, extraction, o2.help_type, "")
                        ELSE \E outcome \in HelpOutcomes(o2.help_type) :
                             LET s3 == s2 \o <<"help_agent">>
                             IN  IF outcome = "raise"
                                 THEN /\ conversation_state' = cs
                                      /\ last' = Apology(sid, query, s3, cat, ar, extraction, o2.help_type, outcome)
                                 ELSE /\ conversation_state' = ResetState(cs, sid)
                                      /\ last' = Call(sid, query, s3 \o <<"reset", "return_help">>,
                                                      HelpContent(HelpResponse(o2.help_type, outcome)),
                                                      FALSE, cat, ar, extraction, o2.help_type, outcome)

\* chat_endpoint for a session that is in a conversation with an appliance
\* agent; texts, labels: what the LLM may answer to the extraction prompt and
\* to the help type prompt
ChatContinue(rid, query, texts, labels) ==
    \E sid \in {SessionId(rid)} :
    \E cs \in {Loaded(sid)} :
        /\ turns < MaxTurns
        /\ InDialogue(cs[sid])
        /\ turns' = turns + 1
        /\ UNCHANGED fallback_vars
        /\ Continue(sid, query, cs, texts, labels)

\* chat_endpoint for a session that is in no conversation: Orchestrator1, then
\* the fallback agent or the first call of the appliance agent; texts: what
\* the LLM may answer to the category prompt
ChatNew(rid, query, texts) ==
    \E sid \in {SessionId(rid)} :
    \E cs \in {Loaded(sid)} :
        /\ turns < MaxTurns
        /\ ~InDialogue(cs[sid])
        /\ turns' = turns + 1
        /\ UNCHANGED fallback_vars
        /\ \E classification \in Llm(texts) :
           \E o1 \in {Orchestrator1_process(query, classification)} :
           \E reply \in FallbackChoices(o1) :
           LET cs1 == [cs EXCEPT ![sid].category = o1.category]
               s1 == <<"orchestrator1">>
           IN  /\ llm_outcomes' = LlmOutcomes(classification, reply, NotCalled)
               /\ IF o1.raised
                  THEN /\ conversation_state' = cs
                       /\ last' = Apology(sid, query, s1, None, NoAgentOutcome, NotCalled, None, "")
                       /\ UNCHANGED <<refrigerator_agent, dishwasher_agent, fallback_agent>>
                  ELSE IF o1.category = Other
                  THEN \E fr \in {FallbackAgent_process(fallback_agent.conversation_history, query, sid, reply)} :
                       LET s2 == s1 \o <<"fallback_agent">>
                       IN  /\ conversation_state' = cs1
                           /\ fallback_agent' = [conversation_history |-> fr.history]
                           /\ UNCHANGED <<refrigerator_agent, dishwasher_agent>>
                           /\ last' = IF fr.raised
                                      THEN Apology(sid, query, s2, None, NoAgentOutcome, NotCalled, None, "")
                                      ELSE Call(sid, query, s2 \o <<"return_fallback">>, fr.response, FALSE, None, NoAgentOutcome, NotCalled, None, "")
                  ELSE LET cs2 == [cs1 EXCEPT ![sid].current_agent = o1.category]
                           agent == AgentFor(o1.category)
                       IN  \E extraction \in ExtractionChoices(agent, ExtractionTexts) :
                           \E ar \in {ApplianceAgent_process(agent, query, sid, extraction)} :
                           LET s2 == s1 \o <<"appliance_agent">>
                           IN  /\ conversation_state' = cs2
                               /\ SetAgent(o1.category, AgentAfter(agent, ar))
                               /\ UNCHANGED fallback_agent
                               /\ last' = IF ar.raised
                                          THEN Apology(sid, query, s2, o1.category, ar, extraction, None, "")
                                          ELSE Call(sid, query, s2 \o <<"return_agent">>, ar.response, FALSE, o1.category, ar, extraction, None, "")

Next ==
    \E rid \in RequestIds, query \in Queries :
        \/ ChatContinue(rid, query, ExtractionTexts, HelpTypeTexts)
        \/ ChatNew(rid, query, CategoryTexts)

Spec == Init /\ [][Next]_vars

(***************************************************************************)
(* The two session stores side by side: first turns of main.py's sessions  *)
(* and the state methods of agents/fallback_agent.py's FallbackAgent (a    *)
(* class main.py does not import; its dict starts empty).                  *)
(***************************************************************************)
SessionIds == {SessionId(rid) : rid \in RequestIds}

StateFields == {"appliance_type", "model_number"}

\* the keyword arguments update_state may be given
KwargsChoices ==
    UNION { [K -> {None, <<"W","R","T","1","1","1">>}] : K \in SUBSET StateFields }

\* FallbackAgent._get_or_create_state(session_id)
GetOrCreateState(session_id) ==
    /\ conversation_states' = get_or_create_state(conversation_states, session_id)
    /\ UNCHANGED <<main_vars, process_result>>

\* update_state that builds the session's state anew from the keywords
UpdatedStatesAnew(states, session_id, kwargs) ==
    [k \in DOMAIN states \cup {session_id} |->
        IF k = session_id
        THEN [f \in DOMAIN ConversationState |-> IF f \in DOMAIN kwargs THEN kwargs[f] ELSE ConversationState[f]]
        ELSE states[k]]

\* the dict after update_state: the session's state is got or created, then
\* setattr(state, key, value) for each keyword
UpdatedStates(states, session_id, kwargs) ==
    LET created == get_or_create_state(states, session_id)
    IN  [created EXCEPT ![session_id] =
            [f \in DOMAIN created[session_id] |->
                IF f \in DOMAIN kwargs THEN kwargs[f] ELSE created[session_id][f]]]

\* FallbackAgent.update_state(session_id, **kwargs)
update_state(session_id, kwargs) ==
    /\ conversation_states' = UpdatedStates(conversation_states, session_id, kwargs)
    /\ UNCHANGED <<main_vars, process_result>>

\* what process may be given: any subset of the four keys
InputKeys == {"query", "session_id", "appliance_type", "model_number"}

InputValues(key) ==
    CASE key = "query" -> {Q_leaking}
      [] key = "session_id" -> {"s1"}
      [] key = "appliance_type" -> {None, <<>>, Dishwasher, Other}
      [] OTHER -> {None, <<"W","R","T","1","1","1">>}

InputChoices ==
    { [k \in K |-> CASE k = "query" -> q [] k = "session_id" -> s [] k = "appliance_type" -> a [] OTHER -> m] :
        K \in SUBSET InputKeys, q \in InputValues("query"), s \in InputValues("session_id"),
        a \in InputValues("appliance_type"), m \in InputValues("model_number") }

\* the number of queries in the histories of the sessions of conversation_states
QueriesHeld ==
    LET len(sid) == IF sid \in DOMAIN conversation_states THEN Len(conversation_states[sid].conversation_history) ELSE 0
    IN  len("default") + len("s1")

\* FallbackAgent.process(input_data) of agents/fallback_agent.py
process(input_data) ==
    \E session_id \in {Get(input_data, "session_id", "default")} :
    \E states \in {get_or_create_state(conversation_states, session_id)} :
    \E state \in {StateFromInput(states[session_id], input_data)} :
    \E result \in {ProcessReturns(state)} :
        /\ QueriesHeld < MaxTurns
        /\ conversation_states' = [states EXCEPT ![session_id] = state]
        /\ process_result' = [called |-> TRUE, session_id |-> session_id, input_data |-> input_data,
                              response |-> result.response, state |-> result.state]
        /\ UNCHANGED main_vars

NextFallbackStates == \E input_data \in InputChoices : process(input_data)

SpecFallbackStates == Init /\ [][NextFallbackStates]_vars

NextSessionStores ==
    \/ \E rid \in RequestIds : ChatNew(rid, Q_leaking, {Dishwasher, Other})
    \/ \E session_id \in SessionIds : GetOrCreateState(session_id)
    \/ \E session_id \in SessionIds, kwargs \in KwargsChoices : update_state(session_id, kwargs)

SpecSessionStores == Init /\ [][NextSessionStores]_vars

(***************************************************************************)
(* The validation of the model number on a wide set of MODEL lines: the    *)
(* session "default" has had its first turn, classified refrigerator and   *)
(* answered with the intro message, and goes on from there.                *)
(***************************************************************************)
AfterIntro ==
    ApplianceAgent_process(NewApplianceAgent(Refrigerator), Q_leaking, "default", NotCalled)

InitModelLines ==
    /\ conversation_state = [k \in {"default"} |-> [NewState EXCEPT !.category = Refrigerator, !.current_agent = Refrigerator]]
    /\ refrigerator_agent = AgentAfter(NewApplianceAgent(Refrigerator), AfterIntro)
    /\ dishwasher_agent = NewApplianceAgent(Dishwasher)
    /\ fallback_agent = [conversation_history |-> <<>>]
    /\ last = Call("default", Q_leaking, <<"orchestrator1", "appliance_agent", "return_agent">>, AfterIntro.response, FALSE, Refrigerator, AfterIntro, NotCalled, None, "")
    /\ llm_outcomes = LlmOutcomes(LlmText(C_refrigerator), NotCalled, NotCalled)
    /\ turns = 1
    /\ conversation_states = <<>>
    /\ process_result = NoResult

NextModelLines == \E query \in Queries : ChatContinue("", query, ModelTexts, HelpTypeTexts)

SpecModelLines == InitModelLines /\ [][NextModelLines]_vars

(***************************************************************************)
(* The classification of category texts of any shape: sessions take their  *)
(* first turns, one query, the wide set of texts.                          *)
(***************************************************************************)
NextClassifier == \E rid \in RequestIds : ChatNew(rid, Q_leaking, ClassifierTexts)

SpecClassifier == Init /\ [][NextClassifier]_vars

(***************************************************************************)
(* The routing of help intents of any wording under help type texts of any *)
(* shape: the session "default" has had its first turn and goes on with    *)
(* turns whose extraction gives all three lines.                           *)
(***************************************************************************)
NextRouting == \E query \in Queries : ChatContinue("", query, HelpLineTexts, LabelTexts)

SpecRouting == InitModelLines /\ [][NextRouting]_vars

(***************************************************************************)
(* The keyword matcher on user texts of many kinds: the session "default"  *)
(* has had its first turn and goes on with turns whose extraction gives a  *)
(* MODEL line and a HELP line and no DETAILS line.                         *)
(***************************************************************************)
NextKeywords == \E query \in KeywordQueries : ChatContinue("", query, {X_model_help}, HelpTypeTexts)

SpecKeywords == InitModelLines /\ [][NextKeywords]_vars

(***************************************************************************)
(* Completion with and without a MODEL line: the session of the model      *)
(* lines goes on with texts that name one model number, another or none,   *)
(* and starts again after a reset.                                         *)
(***************************************************************************)
NextCompletion ==
    \E query \in Queries :
        \/ ChatContinue("", query, CompletionTexts, HelpTypeTexts)
        \/ ChatNew("", query, {C_refrigerator})

SpecCompletion == InitModelLines /\ [][NextCompletion]_vars

(***************************************************************************)
(* Properties                                                              *)
(***************************************************************************)
\* the steps of the latest call, as a set
StepsTaken == Range(last.steps)

FinalStep == last.steps[Len(last.steps)]

\* the appliance agent the latest call used, as it is now
TurnAgent == AgentFor(last.category)

\* the trimmed value of the first line of the LLM's text that starts with label
LineValue(text, label) == Strip(Remove(LinesStartingWith(Strip(text), label)[1], label))

HasLine(text, label) == LinesStartingWith(Strip(text), label) # <<>>

\* the rejection rule as the specification words it
RuleRejects(i) ==
    \/ Lower(i) \in {<<"n","/","a">>, <<"u","n","k","n","o","w","n">>, <<"n","o","n","e">>, <<>>}
    \/ Len(i) < 4
    \/ \A k \in DOMAIN i : ~IsAlnum(i[k])

\* C1: after a turn in which a routing decision was dispatched and the
\* session reset, the session key loads with category none, no identifier,
\* no help intent, an empty turns sequence and no identifier stored from the
\* previous cycle.
C1_ResetStartsEmptyCycle ==
    "reset" \in StepsTaken =>
        /\ Loaded(last.sid)[last.sid] = NewState
        /\ TurnAgent.conversation_history = <<>>
        /\ TurnAgent.model_number = None

\* C2: the turns replayed to the LLM while a turn of a session is handled
\* are turns of that session only.
C2_TurnReadsOwnStateOnly ==
    last.appliance_result.llm_called =>
        \A i \in DOMAIN last.appliance_result.history :
            last.appliance_result.history[i].sid = last.sid

\* C3: the turns of a dialogue alternate user, assistant, and a turn that
\* ended without an assistant response leaves no entry behind.
C3_TurnsAlternate ==
    \A agent \in {refrigerator_agent, dishwasher_agent} :
        LET h == agent.conversation_history
        IN  /\ Len(h) % 2 = 0
            /\ \A i \in DOMAIN h : h[i].role = (IF i % 2 = 1 THEN "user" ELSE "assistant")

\* C4: when the help agent fails during dispatch, by a failure result or by
\* raising, the session is reset in that turn, so that its next turn starts
\* with the classifier.
C4_ResetWhenHelpAgentFails ==
    last.help_outcome \in {"failure", "raise"} =>
        /\ "reset" \in StepsTaken
        /\ ~InDialogue(conversation_state[last.sid])

\* C5: when the appliance agent reports completion with an empty identifier
\* or an empty help intent, the turn is routed to the fallback agent and the
\* fallback agent's response is returned, not the apology.
C5_MissingFieldsRouteToFallback ==
    (/\ last.appliance_result.complete
     /\ ~Truthy(last.appliance_result.r_model) \/ ~Truthy(last.appliance_result.r_help))
    => /\ "fallback_agent" \in StepsTaken
       /\ ~last.raised
       /\ last.response # ApologyMsg

\* C6: a turn never ends in a fault: every call returns a response, and
\* when a step raised the response is the fixed apology text.
C6_TurnNeverFaults ==
    last.sid # "" =>
        /\ last.steps # <<>>
        /\ FinalStep \in {"return_agent", "return_help", "return_fallback", "except"}
        /\ (last.raised \/ last.appliance_result.raised \/ last.help_outcome = "raise")
           => (FinalStep = "except" /\ last.response = ApologyMsg)
        /\ FinalStep = "except" => last.raised

C6_Witness ==
    /\ last.help_outcome = "raise"
    /\ last.response = ApologyMsg

\* C7: the value of a MODEL line is rejected exactly when, lower-cased, it
\* is "n/a", "unknown", "none" or empty, or it is shorter than 4 characters,
\* or it has no alphanumeric character; any other value is stored as the
\* agent's model number.
C7_ValidationRule ==
    (/\ last.appliance_result.llm_called
     /\ last.extraction.ok
     /\ HasLine(last.extraction.text, L_MODEL))
    => LET i == LineValue(last.extraction.text, L_MODEL)
       IN  /\ (last.appliance_result.branch = "invalid") <=> RuleRejects(i)
           /\ ~RuleRejects(i) => TurnAgent.model_number = i

C7_Witness ==
    /\ last.appliance_result.branch = "invalid"
    /\ last.extraction.ok
    /\ HasLine(last.extraction.text, L_MODEL)
    /\ LineValue(last.extraction.text, L_MODEL) = <<"N","O","N","E">>

\* C8: whenever the appliance agent reports completion with a help intent,
\* the identifier it reports is set, has passed validation and is the stored
\* one; no session state holds a help type without a model number.
C8_HelpIntentOnlyWithValidIdentifier ==
    /\ last.appliance_result.complete =>
          /\ Truthy(last.appliance_result.r_model)
          /\ ~RuleRejects(last.appliance_result.r_model)
          /\ last.appliance_result.r_model = TurnAgent.model_number
          /\ last.appliance_result.r_help # None
    /\ \A k \in DOMAIN conversation_state :
          conversation_state[k].help_type # None => conversation_state[k].model_number # None

C8_Witness ==
    /\ last.appliance_result.complete
    /\ last.appliance_result.r_help = Parts
    /\ last.appliance_result.r_model = <<"W","R","T","1","1","1">>

\* C9 as claimed: the help intent of a completion report is always one of
\* manual, parts, symptoms, installation.
C9_HelpIntentInClosedSet ==
    last.appliance_result.complete => last.appliance_result.r_help \in valid_help_types

\* C9 as amended: the help intent of a completion report is one of manual,
\* parts, symptoms, installation when the keyword matcher produced it, and
\* otherwise the trimmed text of the LLM's HELP line, whatever it is; the
\* help type the routing step returns is always one of the four.
C9_HelpIntentIsKeywordOrHelpLine ==
    /\ last.appliance_result.complete =>
          IF last.appliance_result.branch = "keyword"
          THEN last.appliance_result.r_help \in valid_help_types
          ELSE /\ HasLine(last.extraction.text, L_HELP)
               /\ last.appliance_result.r_help = LineValue(last.extraction.text, L_HELP)
    /\ last.help_type # None => last.help_type \in valid_help_types

C9_Witness ==
    /\ last.appliance_result.complete
    /\ last.appliance_result.r_help = <<"d","i","a","g","r","a","m">>
    /\ last.help_type \in valid_help_types

\* the steps of a turn that dispatches, in order
DispatchSteps ==
    <<"appliance_agent", "complete", "orchestrator2", "help_agent", "reset", "return_help">>

\* C10: within a turn the appliance agent reports completion, then the
\* routing step runs, then one help agent (the one of the returned help type)
\* is called, then the session is reset, then the help agent's response with
\* the closing prompt is returned, in this order only; no help agent is
\* called in a turn without a completion report.
C10_DispatchOrder ==
    /\ StepsTaken \cap {"complete", "orchestrator2", "help_agent", "reset", "return_help"} # {} =>
          \E n \in 2..Len(DispatchSteps) :
              /\ Take(last.steps, n) = Take(DispatchSteps, n)
              /\ Drop(last.steps, n) \in {<<>>, <<"except">>, <<"return_agent">>}
    /\ (last.help_outcome # "" \/ "help_agent" \in StepsTaken) =>
          /\ last.appliance_result.complete
          /\ last.help_type \in valid_help_types
          /\ last.help_outcome \in HelpOutcomes(last.help_type)
    /\ "reset" \in StepsTaken =>
          /\ last.steps = DispatchSteps
          /\ conversation_state[last.sid] = NewState
          /\ last.response = HelpResponse(last.help_type, last.help_outcome) \o ClosingPrompt

C10_Witness ==
    /\ last.steps = DispatchSteps
    /\ last.help_type = Parts
    /\ last.help_outcome = "success"

\* the state dict the call for session sid starts from
SessionBefore(sid) == Loaded(sid)[sid]

\* a dialogue with the appliance agent of a known category is active
ActiveDialogue(state) ==
    state.category \in {Refrigerator, Dishwasher} /\ state.current_agent = state.category

\* the history of the appliance agent of a category after the step
HistoryAfter(category) ==
    IF category = Refrigerator
    THEN refrigerator_agent'.conversation_history
    ELSE dishwasher_agent'.conversation_history

\* C11: a turn of a session that has an active dialogue bound to
\* refrigerator or dishwasher starts with the appliance agent of that
\* category and never calls the classifier; the session's category stays the
\* same unless the turn resets the session; the classifier is called only in
\* turns of a session with no active dialogue; the states of the other
\* sessions are left alone.
C11_ActiveDialogueOwnsTurns ==
    [][ LET sid == last'.sid
            pre == SessionBefore(sid)
            steps == Range(last'.steps)
        IN  /\ ActiveDialogue(pre) =>
                  /\ last'.steps[1] = "appliance_agent"
                  /\ "orchestrator1" \notin steps
                  /\ last'.category = pre.category
                  /\ HistoryAfter(pre.category) = last'.appliance_result.history
                  /\ Len(HistoryAfter(pre.category)) > Len(AgentFor(pre.category).conversation_history)
                  /\ IF "reset" \in steps
                     THEN conversation_state'[sid] = NewState
                     ELSE conversation_state'[sid] = pre
            /\ "orchestrator1" \in steps => ~ActiveDialogue(pre)
            /\ ~ActiveDialogue(pre) => last'.steps[1] = "orchestrator1"
            /\ \A k \in DOMAIN conversation_state \ {sid} :
                   conversation_state'[k] = conversation_state[k]
      ]_vars

C11_Witness ==
    /\ last.steps = <<"appliance_agent", "return_agent">>
    /\ last.appliance_result.llm_called
    /\ ActiveDialogue(conversation_state[last.sid])
    /\ conversation_state[last.sid].category = last.category
    /\ Cardinality(DOMAIN conversation_state) = 2

\* C12: a session's category is other than none only while a dialogue with
\* the appliance agent of that category is active; after a turn classified
\* other and answered by the fallback agent the session's category is none.
C12_CategoryOnlyWhileActive ==
    /\ \A k \in DOMAIN conversation_state :
           conversation_state[k].category # None => ActiveDialogue(conversation_state[k])
    /\ "fallback_agent" \in StepsTaken => conversation_state[last.sid].category = None

\* the response is a question that names both appliance categories
AsksWhichAppliance(response) ==
    /\ Contains(response, <<"?">>)
    /\ Contains(Lower(response), Refrigerator)
    /\ Contains(Lower(response), Dishwasher)

AsksModelNumber(response) ==
    Contains(Lower(response), <<"m","o","d","e","l"," ","n","u","m","b","e","r">>)

\* the turn of the step is the first one of its session and the LLM's
\* category text is none of the two appliance labels
FirstTurnClassifiedOther ==
    /\ last'.sid \notin DOMAIN conversation_state
    /\ llm_outcomes'.classification.ok
    /\ Lower(Strip(llm_outcomes'.classification.text)) \notin {Refrigerator, Dishwasher}

C14_ClassifierLabels ==
    llm_outcomes.classification.ok =>
        LET text == Lower(Strip(llm_outcomes.classification.text))
            category == conversation_state[last.sid].category
        IN  /\ category \in {Refrigerator, Dishwasher, Other}
            /\ \A label \in {Refrigerator, Dishwasher} : (category = label) <=> (text = label)
            /\ text \notin {Refrigerator, Dishwasher} => category = Other

C14_Witness ==
    /\ llm_outcomes.classification = LlmText(<<"r","e","f","r","i","g","e","r","a","t","o","r","s">>)
    /\ conversation_state[last.sid].category = Other
    /\ "fallback_agent" \in StepsTaken

\* the LLM's help type text as the routing step cleans it
CleanedLabel == Strip(Remove(Lower(Strip(llm_outcomes.routing.text)), <<"r","e","s","p","o","n","s","e",":">>))

\* the routing step's LLM call returned in the latest turn: the model number
\* and the help intent it was given were not empty
RoutingAnswered ==
    /\ llm_outcomes.routing.ok
    /\ Truthy(last.appliance_result.r_model)
    /\ Truthy(last.appliance_result.r_help)

\* C15 as claimed: the help type of the routing step is the LLM's cleaned
\* label when that is one of manual, parts, symptoms, installation;
\* otherwise parts when the help intent as written contains one of "part",
\* "filter", "shelf", "drawer", "bin", "replacement", and manual otherwise.
C15_HelpTypeByRawWords ==
    RoutingAnswered =>
        last.help_type =
            IF CleanedLabel \in {Manual, Parts, Symptoms, Installation} THEN CleanedLabel
            ELSE IF \E w \in PartWords : Contains(last.appliance_result.r_help, w) THEN Parts
            ELSE Manual

\* C15 as amended: as above, the help intent being searched for the six
\* words without regard to letter case.
C15_HelpTypeByWordsAnyCase ==
    RoutingAnswered =>
        last.help_type =
            IF CleanedLabel \in {Manual, Parts, Symptoms, Installation} THEN CleanedLabel
            ELSE IF \E w \in PartWords : Contains(Lower(last.appliance_result.r_help), w) THEN Parts
            ELSE Manual

C15_Witness ==
    /\ RoutingAnswered
    /\ last.appliance_result.r_help = <<"w","a","t","e","r"," ","F","I","L","T","E","R">>
    /\ CleanedLabel = <<"r","e","p","a","i","r">>
    /\ last.help_type = Parts
    /\ "reset" \in StepsTaken

\* C16: once the model number and the help intent are not empty, the
\* routing step does not fail whatever text the LLM returns: its help type is
\* one of manual, parts, symptoms, installation, and the caller finds the
\* help agent of that type and calls it.
C16_RoutingAlwaysFindsHandler ==
    RoutingAnswered =>
        /\ last.help_type \in {Manual, Parts, Symptoms, Installation}
        /\ Len(last.steps) >= 4
        /\ Take(last.steps, 4) = <<"appliance_agent", "complete", "orchestrator2", "help_agent">>
        /\ last.help_outcome \in HelpOutcomes(last.help_type)

C16_Witness ==
    /\ RoutingAnswered
    /\ llm_outcomes.routing.text = <<>>
    /\ last.appliance_result.r_help = <<"n","o","i","s","e">>
    /\ last.help_type = Manual
    /\ "help_agent" \in StepsTaken

\* the model number of the appliance agent of a category after the step
ModelNumberAfter(category) ==
    IF category = Refrigerator
    THEN refrigerator_agent'.model_number
    ELSE dishwasher_agent'.model_number

\* the step is a turn whose extraction text has a MODEL line with a value
\* the validation rule rejects
RejectedModelLine ==
    /\ last'.appliance_result.llm_called
    /\ last'.extraction.ok
    /\ \E text \in {last'.extraction.text} :
       \E result \in {Strip(text)} :
       \E lines \in {LinesStartingWith(result, L_MODEL)} :
           /\ lines # <<>>
           /\ \E i \in {Strip(Remove(lines[1], L_MODEL))} : RuleRejects(i)

\* C17: when the value of the MODEL line fails validation, the agent's
\* answer is the re-ask message naming its appliance type, the call reports
\* not complete (the answer is returned as it is), and the agent's stored
\* model number is what it was before the turn.
C17_RejectionKeepsStoredModel ==
    [][ RejectedModelLine =>
            /\ last'.response = ErrorMsg(last'.category)
            /\ Contains(last'.response, last'.category)
            /\ ~last'.appliance_result.complete
            /\ last'.appliance_result.keys = {"response", "complete"}
            /\ "appliance_agent" \in Range(last'.steps)
            /\ last'.steps[Len(last'.steps)] = "return_agent"
            /\ ModelNumberAfter(last'.category) = AgentFor(last'.category).model_number
      ]_vars

C17_Witness ==
    /\ last.appliance_result.branch = "invalid"
    /\ LineValue(last.extraction.text, L_MODEL) = <<"-","-","-","-">>
    /\ last.response = ErrorMsg(Refrigerator)
    /\ TurnAgent.model_number = <<"W","R","T","1","1","1">>

\* the get-or-create law for a store: an existing key leaves the store, and
\* so the entry, as it is; a new key gets the fresh entry and the other
\* entries stay; a second call changes nothing
GetOrCreateLaw(store, after, again, key, fresh) ==
    /\ key \in DOMAIN after
    /\ key \in DOMAIN store => after = store
    /\ key \notin DOMAIN store =>
          /\ after[key] = fresh
          /\ DOMAIN after = DOMAIN store \cup {key}
          /\ \A k \in DOMAIN store : after[k] = store[k]
    /\ again = after

\* C18: get_or_create is idempotent, in main.py and in
\* agents/fallback_agent.py: for a key with a session it gives that session
\* with every field as it was, for a new key a session with all fields
\* empty, and calling it again changes nothing.
C18_GetOrCreateIdempotent ==
    \A sid \in SessionIds \cup {"s2"} :
        /\ GetOrCreateLaw(conversation_state, Loaded(sid),
                          GetOrCreate(Loaded(sid), sid, NewState), sid,
                          [current_agent |-> None, category |-> None, model_number |-> None, help_type |-> None])
        /\ GetOrCreateLaw(conversation_states, get_or_create_state(conversation_states, sid),
                          get_or_create_state(get_or_create_state(conversation_states, sid), sid), sid,
                          [appliance_type |-> None, model_number |-> None, last_valid_menu |-> None, conversation_history |-> <<>>])

C18_Witness ==
    /\ DOMAIN conversation_state = {"default"}
    /\ conversation_state["default"].category = Dishwasher
    /\ DOMAIN conversation_states = {"default"}
    /\ conversation_states["default"].model_number = <<"W","R","T","1","1","1">>

\* C19: in every turn that starts a dialogue (the classifier ran and the
\* turn went on to an appliance agent), whichever session it is and whether
\* or not it follows a reset, the agent answers with the intro message and
\* makes no extraction call.
C19_FirstTurnGetsIntro ==
    ("orchestrator1" \in StepsTaken /\ "appliance_agent" \in StepsTaken) =>
        /\ ~last.appliance_result.llm_called
        /\ last.extraction = NotCalled
        /\ last.steps = <<"orchestrator1", "appliance_agent", "return_agent">>
        /\ last.response = IntroMsg(last.category)

\* C20: when the agent has a model number stored before the turn and the
\* LLM's extraction text has no HELP label (and no MODEL line that fails
\* validation), a turn whose text holds a keyword of the matcher is answered with a completion report carrying the matched
\* help type and the stored model number.
C20_KeywordCompletesWithoutHelpLine ==
    [][ \A stored \in {AgentFor(last'.category).model_number} :
        \A text \in {last'.extraction.text} :
        \A kw \in {KeywordMatch(last'.query)} :
            (/\ last'.appliance_result.llm_called
             /\ last'.extraction.ok
             /\ stored # None
             /\ ~Contains(text, L_HELP)
             /\ ~RejectedModelLine
             /\ kw.help_type # None)
            => /\ last'.appliance_result.complete
               /\ last'.appliance_result.r_help = kw.help_type
               /\ last'.appliance_result.r_model = stored
      ]_vars

\* C21: when the agent has a model number stored before the turn, the
\* LLM's extraction text has no HELP label (and no MODEL line that fails
\* validation) and the turn's text holds no keyword of the matcher, the
\* agent answers with a services menu, not with the request for the model
\* number, reports not complete and keeps the stored model number.
C21_MenuAgainWithoutKeyword ==
    [][ \A stored \in {AgentFor(last'.category).model_number} :
        \A text \in {last'.extraction.text} :
        \A kw \in {KeywordMatch(last'.query)} :
            (/\ last'.appliance_result.llm_called
             /\ last'.extraction.ok
             /\ stored # None
             /\ ~Contains(text, L_HELP)
             /\ ~RejectedModelLine
             /\ kw.help_type = None)
            => /\ last'.response \in {ServicesMsg(last'.category), ServicesMsg2}
               /\ last'.response # ModelMsg(last'.category)
               /\ ~last'.appliance_result.complete
               /\ ModelNumberAfter(last'.category) = stored
      ]_vars

\* the keyword groups in their order of priority, and the help type of each
KeywordGroups ==
    << { <<"m","a","n","u","a","l">>, <<"g","u","i","d","e">> },
       { <<"p","a","r","t">> },
       { <<"p","r","o","b","l","e","m">>, <<"s","y","m","p","t","o","m">>, <<"i","s","s","u","e">>, <<"e","r","r","o","r">> },
       { <<"i","n","s","t","a","l","l">>, <<"s","e","t","u","p">> } >>

GroupHelpType == <<Manual, Parts, Symptoms, Installation>>

\* the groups that have a keyword in the lower-cased text
GroupsIn(text) ==
    {g \in DOMAIN KeywordGroups : \E w \in KeywordGroups[g] : Contains(Lower(text), w)}

\* the latest turn reached the keyword matcher: the LLM's text has a valid
\* MODEL line and a HELP label and no DETAILS label
MatcherReached ==
    /\ last.appliance_result.llm_called
    /\ last.extraction.ok
    /\ HasLine(last.extraction.text, L_MODEL)
    /\ ~RuleRejects(LineValue(last.extraction.text, L_MODEL))
    /\ Contains(last.extraction.text, L_HELP)
    /\ ~Contains(last.extraction.text, L_DETAILS)

\* C22: the help type of the keyword matcher is decided by the lower-cased
\* text of the turn alone, with the priority manual/guide, then part, then
\* problem/symptom/issue/error, then install/setup: a text with keywords of
\* several groups gets the help type of the first such group, a text with
\* none gets no help type (the menu is shown).
C22_KeywordPriority ==
    MatcherReached =>
        \A groups \in {GroupsIn(last.query)} :
            IF groups = {}
            THEN /\ ~last.appliance_result.complete
                 /\ last.response = ServicesMsg2
            ELSE /\ last.appliance_result.complete
                 /\ \A g \in groups :
                        (\A h \in groups : g <= h) => last.appliance_result.r_help = GroupHelpType[g]

C22_Witness ==
    /\ MatcherReached
    /\ GroupsIn(last.query) = {2, 3, 4}
    /\ last.appliance_result.r_help = Parts
    /\ last.appliance_result.complete

\* the label occurs in the LLM's text of the latest turn and no line of the
\* text starts with it
OnlyMidline(label) ==
    /\ Contains(Strip(last.extraction.text), label)
    /\ ~HasLine(last.extraction.text, label)

\* C23: a turn whose LLM text has a label only in the middle of a line does
\* not end in an error: the field counts as absent, so a text with no line
\* starting with MODEL: is answered with the request for the model number,
\* and a text with a valid MODEL line and no line starting with HELP: with
\* the services menu.
C23_MidlineLabelCountsAsAbsent ==
    (last.appliance_result.llm_called /\ last.extraction.ok) =>
        /\ (\E label \in {L_MODEL, L_HELP, L_DETAILS} : OnlyMidline(label)) =>
              /\ ~last.appliance_result.raised
              /\ FinalStep # "except"
        /\ OnlyMidline(L_MODEL) => last.response = ModelMsg(last.category)
        /\ (/\ OnlyMidline(L_HELP)
            /\ HasLine(last.extraction.text, L_MODEL)
            /\ ~RuleRejects(LineValue(last.extraction.text, L_MODEL)))
           => last.response = ServicesMsg(last.category)

\* the fixed details strings of the agent
DefaultDetails ==
    { <<"General product manual and care guide">>, <<"Part information and replacement">>,
      <<"Troubleshooting and problem resolution">>, <<"Installation and setup instructions">> }

\* C24: a turn whose LLM text has a valid MODEL line and a HELP line and no
\* DETAILS label is answered with a completion report that carries the help
\* intent of the HELP line and one of the fixed details strings.
C24_HelpLineWithoutDetailsCompletes ==
    (/\ last.appliance_result.llm_called
     /\ last.extraction.ok
     /\ HasLine(last.extraction.text, L_MODEL)
     /\ ~RuleRejects(LineValue(last.extraction.text, L_MODEL))
     /\ HasLine(last.extraction.text, L_HELP)
     /\ ~Contains(last.extraction.text, L_DETAILS))
    => /\ last.appliance_result.complete
       /\ last.appliance_result.r_help = LineValue(last.extraction.text, L_HELP)
       /\ last.appliance_result.r_details \in DefaultDetails

\* C25: a turn whose LLM text has a valid MODEL line and no HELP label
\* stores the model number, is answered with the services menu of the
\* agent's appliance type (the four services), reports not complete, and
\* leaves the menu text in the session's state as the last menu shown.
C25_MenuShownAndCached ==
    (/\ last.appliance_result.llm_called
     /\ last.extraction.ok
     /\ HasLine(last.extraction.text, L_MODEL)
     /\ ~RuleRejects(LineValue(last.extraction.text, L_MODEL))
     /\ ~Contains(last.extraction.text, L_HELP))
    => /\ TurnAgent.model_number = LineValue(last.extraction.text, L_MODEL)
       /\ last.response = ServicesMsg(last.category)
       /\ ~last.appliance_result.complete
       /\ "last_valid_menu" \in DOMAIN conversation_state[last.sid]
       /\ conversation_state[last.sid].last_valid_menu = last.response

\* C26: a call of an appliance agent that returns, whatever its branch,
\* adds to the agent's history one user entry and then one assistant entry
\* and nothing else; the user entry holds the turn's text and the assistant
\* entry the response returned.
C26_CallAppendsUserThenAssistant ==
    [][ ("appliance_agent" \in Range(last'.steps) /\ ~last'.appliance_result.raised) =>
            \A before \in {AgentFor(last'.category).conversation_history} :
            \A after \in {HistoryAfter(last'.category)} :
                /\ Len(after) = Len(before) + 2
                /\ SubSeq(after, 1, Len(before)) = before
                /\ after[Len(before) + 1] = Entry("user", last'.sid)
                /\ after[Len(before) + 2] = Entry("assistant", last'.sid)
                /\ last'.appliance_result.appended =
                       << Said("user", last'.query),
                          Said("assistant", last'.appliance_result.response) >>
                /\ last'.appliance_result.branch \in
                       {"intro", "invalid", "services", "extracted", "ask_model", "keyword", "services_again"}
      ]_vars

C26_Witness ==
    /\ last.appliance_result.branch = "keyword"
    /\ Len(TurnAgent.conversation_history) = 4
    /\ last.appliance_result.appended[2] = Said("assistant", last.appliance_result.response)
    /\ last.appliance_result.complete

\* what the fallback agent's LLM call of the latest turn was given as
\* history: the agent's history before its reply was added
FallbackReplayed ==
    IF llm_outcomes.reply.ok
    THEN Take(fallback_agent.conversation_history, Len(fallback_agent.conversation_history) - 1)
    ELSE fallback_agent.conversation_history

\* the history has the entry of the latest turn's user text
HasTurnOfSession(history) ==
    \E i \in DOMAIN history : history[i] = Entry("user", last.sid)

OnlyOfSession(history) ==
    \A i \in DOMAIN history : history[i].sid = last.sid

\* C27: every LLM call of a turn is given the turns of the turn's session
\* and no others as its history: the extraction call, the routing call and
\* the classifier's and the fallback agent's calls.
C27_LlmCallsReplaySessionTurns ==
    /\ last.appliance_result.llm_called =>
          /\ OnlyOfSession(last.appliance_result.history)
          /\ HasTurnOfSession(last.appliance_result.history)
    /\ llm_outcomes.routing # NotCalled =>
          /\ OnlyOfSession(OrchestratorHistory)
          /\ HasTurnOfSession(OrchestratorHistory)
    /\ llm_outcomes.classification # NotCalled => OnlyOfSession(OrchestratorHistory)
    /\ llm_outcomes.reply # NotCalled => OnlyOfSession(FallbackReplayed)

C29_OnlyCompletionEndsDialogue ==
    [][ \A sid \in DOMAIN conversation_state :
            ActiveDialogue(conversation_state[sid]) =>
                /\ sid \in DOMAIN conversation_state'
                /\ ~ActiveDialogue(conversation_state'[sid]) =>
                      /\ last'.sid = sid
                      /\ last'.appliance_result.complete
                      /\ last'.appliance_result.branch \in {"extracted", "keyword"}
                      /\ {"help_agent", "reset"} \subseteq Range(last'.steps)
                      /\ last'.help_outcome # "raise"
                      /\ ~last'.raised
                      /\ conversation_state'[sid] = NewState
                /\ (last'.sid # sid \/ "reset" \notin Range(last'.steps)) =>
                      conversation_state'[sid] = conversation_state[sid]
      ]_vars

C29_Witness ==
    /\ {"help_agent", "reset"} \subseteq StepsTaken
    /\ last.appliance_result.complete
    /\ last.sid \in DOMAIN conversation_state
    /\ conversation_state[last.sid].current_agent = None
    /\ conversation_state[last.sid].category = None
    /\ TurnAgent.model_number # None

\* the state of the session of the latest call of agents/fallback_agent.py's
\* process, as the call left it
ProcessState == conversation_states[process_result.session_id]

\* C30: the answer of agents/fallback_agent.py's process is decided by the
\* two fields of the session's state as the call holds it, and no LLM is
\* called: with an appliance type and a model number it is the services menu
\* for that appliance type, with an appliance type and no model number it is
\* the request for the model number; the query, the history and the session
\* id have no part in it.
C30_FallbackAnswersFromState ==
    process_result.called =>
        /\ llm_outcomes = LlmOutcomes(NotCalled, NotCalled, NotCalled)
        /\ (Truthy(ProcessState.appliance_type) /\ Truthy(ProcessState.model_number)) =>
              /\ process_result.response =
                    <<"Thank you. Here are the services I can provide for your ">> \o ProcessState.appliance_type
                    \o <<":\n", "1. Want the product manual or care guide\n2. Help searching a part for their product model\n3. Looking for help with a problem/symptoms in the product\n4. Looking for installation information", "\nWhat kind of help do you need?">>
              /\ DOMAIN process_result.state = {"appliance_type", "model_number", "last_valid_menu"}
              /\ process_result.state["appliance_type"] = ProcessState.appliance_type
              /\ process_result.state["model_number"] = ProcessState.model_number
              /\ process_result.state["last_valid_menu"] = process_result.response
        /\ (Truthy(ProcessState.appliance_type) /\ ~Truthy(ProcessState.model_number)) =>
              /\ process_result.response = <<"Could you please provide your appliance's model number? It's usually found on a label inside the appliance.">>
              /\ DOMAIN process_result.state = {"appliance_type"}
              /\ process_result.state["appliance_type"] = ProcessState.appliance_type

C30_Witness ==
    /\ process_result.called
    /\ DOMAIN process_result.input_data = {"query"}
    /\ ProcessState.appliance_type = Dishwasher
    /\ ProcessState.model_number = <<"W","R","T","1","1","1">>
    /\ process_result.response = services_menu(Dishwasher)
    /\ Len(ProcessState.conversation_history) = 3

\* the session's state in a dict of agents/fallback_agent.py, fresh when the
\* dict has no such session
StateIn(states, sid) ==
    IF sid \in DOMAIN states
    THEN states[sid]
    ELSE [appliance_type |-> None, model_number |-> None, last_valid_menu |-> None, conversation_history |-> <<>>]

\* after is states with the supplied fields of session sid set to the values
\* supplied and everything else as it was
OnlySuppliedFieldsChange(states, after, sid, supplied) ==
    /\ DOMAIN after = DOMAIN states \cup {sid}
    /\ \A k \in DOMAIN states : k # sid => after[k] = states[k]
    /\ \A f \in {"appliance_type", "model_number", "last_valid_menu"} :
          after[sid][f] = IF f \in DOMAIN supplied THEN supplied[f] ELSE StateIn(states, sid)[f]

\* C31: update_state of agents/fallback_agent.py sets the fields it is
\* given for the session and nothing else: the session's other fields, its
\* history included, and the state of every other session stay as they
\* were; the update at the start of process does the same for the appliance
\* type and the model number of its input.
C31_UpdateChangesSuppliedFieldsOnly ==
    /\ \A sid \in SessionIds \cup {"s2"}, kwargs \in KwargsChoices :
          \A after \in {UpdatedStates(conversation_states, sid, kwargs)} :
              /\ OnlySuppliedFieldsChange(conversation_states, after, sid, kwargs)
              /\ after[sid].conversation_history = StateIn(conversation_states, sid).conversation_history
    /\ \A input_data \in InputChoices :
          \A sid \in {Get(input_data, "session_id", "default")} :
          \A state \in {StateFromInput(StateIn(conversation_states, sid), input_data)} :
              /\ state.last_valid_menu = StateIn(conversation_states, sid).last_valid_menu
              /\ \A f \in {"appliance_type", "model_number"} :
                    state[f] = IF f \in DOMAIN input_data THEN input_data[f] ELSE StateIn(conversation_states, sid)[f]

C31_Witness ==
    /\ DOMAIN conversation_states = {"default", "s1"}
    /\ conversation_states["default"].model_number = <<"W","R","T","1","1","1">>
    /\ conversation_states["default"].appliance_type = None
    /\ conversation_states["s1"].appliance_type = <<"W","R","T","1","1","1">>
    /\ conversation_states["s1"].model_number = None

\* C32: a turn that ends with the fixed apology because a step raised
\* leaves the session as it was before the turn: its category and its
\* current agent, and the history and the stored model number of the
\* appliance agents.
C32_ApologyLeavesSessionAsItWas ==
    [][ last'.raised =>
            /\ last'.response = ApologyMsg
            /\ conversation_state'[last'.sid].category = SessionBefore(last'.sid).category
            /\ conversation_state'[last'.sid].current_agent = SessionBefore(last'.sid).current_agent
            /\ refrigerator_agent'.conversation_history = refrigerator_agent.conversation_history
            /\ dishwasher_agent'.conversation_history = dishwasher_agent.conversation_history
            /\ refrigerator_agent'.model_number = refrigerator_agent.model_number
            /\ dishwasher_agent'.model_number = dishwasher_agent.model_number
      ]_vars

\* C33: the appliance agent reports complete only in a turn whose LLM
\* extraction text has a MODEL line with a value that passes validation,
\* and the model number it reports, and has stored, is the value of that
\* line; a turn whose text has no such line does not complete, whatever
\* model number the agent holds from earlier turns.
C33_CompletionNeedsModelLineOfTurn ==
    last.appliance_result.complete =>
        /\ last.appliance_result.llm_called
        /\ last.extraction.ok
        /\ HasLine(last.extraction.text, L_MODEL)
        /\ \A i \in {LineValue(last.extraction.text, L_MODEL)} :
              /\ ~RuleRejects(i)
              /\ last.appliance_result.r_model = i
              /\ TurnAgent.model_number = i

C33_Witness ==
    /\ last.appliance_result.complete
    /\ last.extraction.text = X_full_other
    /\ last.appliance_result.r_model = <<"A","B","-","1">>
    /\ Len(TurnAgent.conversation_history) = 6

\* the model number an appliance agent holds is none or a value the
\* validation rule accepts
StoredModelValid(agent) ==
    agent.model_number # None => ~RuleRejects(agent.model_number)

\* a step's write to an agent's model number: one held before is not given
\* up, and a new value is the value of the MODEL line of a turn of that
\* agent
StoredModelStep(before, after, appliance_type) ==
    /\ before # None => after # None
    /\ after # before =>
          /\ last'.category = appliance_type
          /\ last'.extraction.ok
          /\ \E text \in {last'.extraction.text} :
             \E result \in {Strip(text)} :
             \E lines \in {LinesStartingWith(result, L_MODEL)} :
                 /\ lines # <<>>
                 /\ after = Strip(Remove(lines[1], L_MODEL))
                 /\ ~RuleRejects(after)

\* C34: in every reachable state the model number held by each appliance
\* agent is none or a value that passed validation (at least 4 characters,
\* an alphanumeric character among them, not "n/a", "unknown" or "none" in
\* any case); no step stores a rejected value, and none clears or gives up
\* a model number once held.
C34_StoredModelAlwaysValid ==
    /\ [](StoredModelValid(refrigerator_agent) /\ StoredModelValid(dishwasher_agent))
    /\ [][ /\ StoredModelStep(refrigerator_agent.model_number, refrigerator_agent'.model_number, Refrigerator)
           /\ StoredModelStep(dishwasher_agent.model_number, dishwasher_agent'.model_number, Dishwasher)
       ]_vars

C34_Witness ==
    /\ last.appliance_result.branch = "invalid"
    /\ LineValue(last.extraction.text, L_MODEL) = <<"W","R","T">>
    /\ refrigerator_agent.model_number = <<"1","2","3","4">>
    /\ dishwasher_agent.model_number = None

====
